---- MODULE Spec2Model ----
(***************************************************************************)
(* Custom memory management of effective_cpp_demos:                        *)
(*   memory_management/include/CustomMemoryManagement.hpp                  *)
(* MemoryPool (fixed-block arena with a free list), MemoryTracker (map of  *)
(* live allocations and their running total) and Trackable (the operator   *)
(* new / operator delete overloads that route between heap and pool).      *)
(*                                                                         *)
(* Addresses are integers.  0 is nullptr, 1..MaxHeap are the addresses     *)
(* malloc can hand to Trackable, MaxHeap+1 is an address nothing owns, and *)
(* the pool's buffer starts at memory_.  size_t is SizeBits wide.          *)
(*                                                                         *)
(* Every member function is an operator from the object's state and the    *)
(* call's arguments to the object's next state and what the call returns   *)
(* or prints; every action applies one of them to the variables.           *)
(***************************************************************************)
EXTENDS Integers, Sequences, FiniteSets, TLC

\* ---- bounds of the model -------------------------------------------------
MaxBlockSize == 2
MaxPoolSize == 4
MaxHeap == 1
MaxSize == 2
MaxTotal == 2
SizeBits == 8
MaxHandlerRuns == 3
MaxReserveFrees == 2
NumThreads == 2
MaxRouterPool == 2

\* ---- address space and machine arithmetic --------------------------------
nullptr == 0
SizeMod == 2 ^ SizeBits
HeapAddrs == 1 .. MaxHeap
memory_ == MaxHeap + 2
Addrs == 0 .. (memory_ + MaxPoolSize)

\* the address malloc gives the emergency reserve, and the handler slot of
\* std::set_new_handler when no handler is installed
EmergencyAddr == memory_ + MaxPoolSize + 1
NoHandler == "nullptr"

\* the threads of the concurrent specifications, and the owner of a free mutex
Threads == 1 .. NumThreads
NoThread == 0

\* a local variable no value was read into
NotRead == -1

VARIABLES
    pool,        \* the MemoryPool: blockSize_, poolSize_, used_, freeList_
    tracker,     \* the MemoryTracker singleton: allocations_, totalAllocated_
    heap,        \* addresses malloc has handed out and free has not taken back
    crashed,     \* the process was ended by an invalid free()
    held,        \* caller side: blocks obtained from allocate() and not given back
    freedOrder,  \* caller side: blocks given back and still free, oldest first
    allocLog,    \* caller side: results of the allocate() calls made so far ...
    pristine,    \* ... while nothing but allocate() was called on the pool
    emergencyReserve_,  \* MemoryTracker::emergencyReserve_
    created,            \* the static flag of createEmergencyReserve
    new_handler,        \* the handler installed with std::set_new_handler
    tornDown,           \* ~MemoryTracker has run
    reserveFrees,       \* how often free(emergencyReserve_) was called
    newPc,              \* where a request to ::operator new is in its retry loop
    handlerRuns,        \* how often that loop has called the installed handler
    outOfMemory,        \* a heap-backed operator new of Trackable threw std::bad_alloc
    mutex_pool,         \* the thread inside MemoryPool::mutex_, or NoThread
    mutex_tracker,      \* the thread inside MemoryTracker::mutex_, or NoThread
    pc,                 \* per thread: the operation it is in and the step it is at
    reg,                \* per thread: the address its operation works on (ptr) and
                        \*   what isTracked told it (flag)
    owns                \* per thread: the blocks it obtained and has not given back

clientVars == <<held, freedOrder, allocLog, pristine>>
reserveVars == <<emergencyReserve_, created, new_handler, tornDown, reserveFrees,
                 newPc, handlerRuns>>
threadVars == <<mutex_pool, mutex_tracker, pc, reg, owns>>
vars == <<pool, tracker, heap, crashed, clientVars, reserveVars, outOfMemory,
          threadVars>>

\* ---- helpers ---------------------------------------------------------------
Range(s) == {s[i] : i \in 1 .. Len(s)}

Last(s) == s[Len(s)]

Front(s) == SubSeq(s, 1, Len(s) - 1)

Remove(s, x) == SelectSeq(s, LAMBDA y : y # x)

RECURSIVE SumSizes(_, _)
SumSizes(f, S) ==
    IF S = {} THEN 0
    ELSE LET a == CHOOSE x \in S : TRUE
         IN f[a].size + SumSizes(f, S \ {a})

\* ---- MemoryPool --------------------------------------------------------------
\* mutant: every block is given the buffer's start address
MemoryPool_sameAddress(blockSize, poolSize) ==
    [blockSize_ |-> blockSize, poolSize_ |-> poolSize, used_ |-> 0,
     freeList_ |-> [i \in 1 .. (poolSize \div blockSize) |-> memory_]]

\* mutant: the block addresses are pushed highest first
MemoryPool_descending(blockSize, poolSize) ==
    [blockSize_ |-> blockSize, poolSize_ |-> poolSize, used_ |-> 0,
     freeList_ |-> [i \in 1 .. (poolSize \div blockSize) |->
                        memory_ + ((poolSize \div blockSize) - i) * blockSize]]

\* the constructor
MemoryPool(blockSize, poolSize) ==
    [blockSize_ |-> blockSize, poolSize_ |-> poolSize, used_ |-> 0,
     freeList_ |-> [i \in 1 .. (poolSize \div blockSize) |->
                        memory_ + (i - 1) * blockSize]]

\* mutant: the empty check is missing, used_ grows although nothing is handed out
allocate_noEmptyCheck(p) ==
    IF p.freeList_ = <<>>
    THEN [block |-> nullptr,
          pool |-> [p EXCEPT !.used_ = (@ + p.blockSize_) % SizeMod]]
    ELSE [block |-> Last(p.freeList_),
          pool |-> [p EXCEPT !.freeList_ = Front(@),
                             !.used_ = (@ + p.blockSize_) % SizeMod]]

\* mutant: takes the front of the free list
allocate_front(p) ==
    IF p.freeList_ = <<>>
    THEN [block |-> nullptr, pool |-> p]
    ELSE [block |-> Head(p.freeList_),
          pool |-> [p EXCEPT !.freeList_ = Tail(@),
                             !.used_ = (@ + p.blockSize_) % SizeMod]]

allocate(p) ==
    IF p.freeList_ = <<>>
    THEN [block |-> nullptr, pool |-> p]
    ELSE [block |-> Last(p.freeList_),
          pool |-> [p EXCEPT !.freeList_ = Front(@),
                             !.used_ = (@ + p.blockSize_) % SizeMod]]

\* mutant: the block goes back on the free list, used_ is left as it was
Recycle_usedKept(p, ptr) ==
    [diag |-> "Recycled", pool |-> [p EXCEPT !.freeList_ = Append(@, ptr)]]

\* the tail of deallocate: the block goes back on the free list
Recycle(p, ptr) ==
    [diag |-> "Recycled",
     pool |-> [p EXCEPT !.freeList_ = Append(@, ptr),
                        !.used_ = (@ - p.blockSize_) % SizeMod]]

\* mutant: the upper bound of the range check is inclusive
deallocate_inclusiveBound(p, ptr) ==
    IF ptr >= memory_ /\ ptr <= memory_ + p.poolSize_
    THEN LET offset == ptr - memory_
         IN  IF offset % p.blockSize_ # 0 THEN [diag |-> "NotBlockStart", pool |-> p]
             ELSE IF ptr \in Range(p.freeList_) THEN [diag |-> "DoubleRelease", pool |-> p]
             ELSE Recycle(p, ptr)
    ELSE [diag |-> "NotInPool", pool |-> p]

\* mutant: the scan of the free list is missing
deallocate_noScan(p, ptr) ==
    IF ptr >= memory_ /\ ptr < memory_ + p.poolSize_
    THEN LET offset == ptr - memory_
         IN  IF offset % p.blockSize_ # 0 THEN [diag |-> "NotBlockStart", pool |-> p]
             ELSE Recycle(p, ptr)
    ELSE [diag |-> "NotInPool", pool |-> p]

deallocate(p, ptr) ==
    IF ptr >= memory_ /\ ptr < memory_ + p.poolSize_
    THEN LET offset == ptr - memory_
         IN  IF offset % p.blockSize_ # 0 THEN [diag |-> "NotBlockStart", pool |-> p]
             ELSE IF ptr \in Range(p.freeList_) THEN [diag |-> "DoubleRelease", pool |-> p]
             ELSE Recycle(p, ptr)
    ELSE [diag |-> "NotInPool", pool |-> p]

getBlockSize(p) == p.blockSize_

getUsed(p) == p.used_

getFreeCount(p) == Len(p.freeList_)

\* the constructor's local numBlocks
numBlocks(p) == p.poolSize_ \div p.blockSize_

\* ---- MemoryTracker -----------------------------------------------------------
AllocationInfo(size, file, line) == [size |-> size, file |-> file, line |-> line]

\* the constructor
MemoryTracker ==
    [allocations_ |-> [a \in {} |-> AllocationInfo(0, "", 0)], totalAllocated_ |-> 0]

recordAllocation(t, ptr, size, file, line) ==
    IF ptr = nullptr THEN t
    ELSE [allocations_ |->
              [a \in DOMAIN t.allocations_ \cup {ptr} |->
                  IF a = ptr THEN AllocationInfo(size, file, line)
                  ELSE t.allocations_[a]],
          totalAllocated_ |-> (t.totalAllocated_ + size) % SizeMod]

\* mutant: the record is erased, totalAllocated_ is left as it was
recordDeallocation_totalKept(t, ptr) ==
    IF ptr = nullptr THEN [diag |-> "", tracker |-> t]
    ELSE IF ptr \in DOMAIN t.allocations_
    THEN [diag |-> "",
          tracker |->
              [allocations_ |->
                   [a \in DOMAIN t.allocations_ \ {ptr} |-> t.allocations_[a]],
               totalAllocated_ |-> t.totalAllocated_]]
    ELSE [diag |-> "UntrackedRelease", tracker |-> t]

recordDeallocation(t, ptr) ==
    IF ptr = nullptr THEN [diag |-> "", tracker |-> t]
    ELSE IF ptr \in DOMAIN t.allocations_
    THEN [diag |-> "",
          tracker |->
              [allocations_ |->
                   [a \in DOMAIN t.allocations_ \ {ptr} |-> t.allocations_[a]],
               totalAllocated_ |->
                   (t.totalAllocated_ - t.allocations_[ptr].size) % SizeMod]]
    ELSE [diag |-> "UntrackedRelease", tracker |-> t]

isTracked(t, ptr) == ptr \in DOMAIN t.allocations_

getTotalAllocated(t) == t.totalAllocated_

\* what the leak report prints: the total and one entry per record
printLeakReport(t) ==
    [total |-> t.totalAllocated_,
     noLeaks |-> DOMAIN t.allocations_ = {},
     leaks |-> {[ptr |-> a, size |-> t.allocations_[a].size,
                 file |-> t.allocations_[a].file, line |-> t.allocations_[a].line] :
                    a \in DOMAIN t.allocations_}]

\* createEmergencyReserve(), called once by the constructor; ptr is what malloc
\* returned for the reserve
createEmergencyReserve(ptr) ==
    [emergencyReserve_ |-> ptr, created |-> (ptr # nullptr)]

\* mutant: the reserve is freed but the pointer is not reset
releaseEmergencyReserve_pointerKept(e) ==
    IF e # nullptr
    THEN [ret |-> TRUE, emergencyReserve_ |-> e, freed |-> {e}]
    ELSE [ret |-> FALSE, emergencyReserve_ |-> e, freed |-> {}]

releaseEmergencyReserve(e) ==
    IF e # nullptr
    THEN [ret |-> TRUE, emergencyReserve_ |-> nullptr, freed |-> {e}]
    ELSE [ret |-> FALSE, emergencyReserve_ |-> e, freed |-> {}]

\* mutant: the handler stays installed when nothing can be recovered
memoryExhausted_handlerKept(e, h) ==
    LET r == releaseEmergencyReserve(e)
    IN  [signal |-> IF r.ret THEN "retry" ELSE "no recovery",
         emergencyReserve_ |-> r.emergencyReserve_,
         new_handler |-> h,
         freed |-> r.freed]

\* the new-handler; e is emergencyReserve_ and h the installed handler
memoryExhausted(e, h) ==
    LET r == releaseEmergencyReserve(e)
    IN  IF r.ret
        THEN [signal |-> "retry", emergencyReserve_ |-> r.emergencyReserve_,
              new_handler |-> h, freed |-> r.freed]
        ELSE [signal |-> "no recovery", emergencyReserve_ |-> r.emergencyReserve_,
              new_handler |-> NoHandler, freed |-> r.freed]

\* the destructor: the leak report, then the reserve is released if still held
MemoryTracker_destroy(t, e) ==
    LET r == releaseEmergencyReserve(e)
    IN  [report |-> printLeakReport(t), emergencyReserve_ |-> r.emergencyReserve_,
         freed |-> r.freed]

\* ---- Trackable ---------------------------------------------------------------
\* Each overload is given what malloc returned to it (ptr) where it calls malloc,
\* and says which addresses it passes to free (freed).

\* operator new(size_t)
operator_new(t, size, ptr) ==
    LET request == IF size = 0 THEN 1 ELSE size
    IN  IF ptr = nullptr
        THEN [ret |-> nullptr, diag |-> "bad_alloc", tracker |-> t]
        ELSE [ret |-> ptr, diag |-> "",
              tracker |-> recordAllocation(t, ptr, request, "Unknown", 0)]

\* mutant: releases without asking the tracker first
operator_delete_unchecked(t, ptr) ==
    IF ptr = nullptr THEN [diag |-> "", tracker |-> t, freed |-> {}]
    ELSE LET d == recordDeallocation(t, ptr)
         IN  [diag |-> d.diag, tracker |-> d.tracker, freed |-> {ptr}]

\* operator delete(void*)
operator_delete(t, ptr) ==
    IF ptr = nullptr THEN [diag |-> "", tracker |-> t, freed |-> {}]
    ELSE IF isTracked(t, ptr)
    THEN LET d == recordDeallocation(t, ptr)
         IN  [diag |-> d.diag, tracker |-> d.tracker, freed |-> {ptr}]
    ELSE [diag |-> "UntrackedRelease", tracker |-> t, freed |-> {}]

\* operator new(size_t, const char*, int)
operator_new_file_line(t, size, file, line, ptr) ==
    LET request == IF size = 0 THEN 1 ELSE size
    IN  IF ptr = nullptr
        THEN [ret |-> nullptr, diag |-> "bad_alloc", tracker |-> t]
        ELSE [ret |-> ptr, diag |-> "",
              tracker |-> recordAllocation(t, ptr, request, file, line)]

\* operator delete(void*, const char*, int)
operator_delete_file_line(t, ptr, file, line) ==
    IF ptr = nullptr THEN [diag |-> "", tracker |-> t, freed |-> {}]
    ELSE LET d == recordDeallocation(t, ptr)
         IN  [diag |-> d.diag, tracker |-> d.tracker, freed |-> {ptr}]

\* mutant: the block is drawn before the size is looked at
operator_new_pool_allocateFirst(t, p, size) ==
    LET a == allocate(p)
    IN  IF size > getBlockSize(p)
        THEN [ret |-> nullptr, diag |-> "bad_alloc:RequestTooLarge",
              tracker |-> t, pool |-> a.pool]
        ELSE IF a.block = nullptr
        THEN [ret |-> nullptr, diag |-> "bad_alloc:Exhausted",
              tracker |-> t, pool |-> a.pool]
        ELSE [ret |-> a.block, diag |-> "",
              tracker |-> recordAllocation(t, a.block, size, "MemoryPool", 0),
              pool |-> a.pool]

\* operator new(size_t, MemoryPool&)
operator_new_pool(t, p, size) ==
    IF size > getBlockSize(p)
    THEN [ret |-> nullptr, diag |-> "bad_alloc:RequestTooLarge",
          tracker |-> t, pool |-> p]
    ELSE LET a == allocate(p)
         IN  IF a.block = nullptr
             THEN [ret |-> nullptr, diag |-> "bad_alloc:Exhausted",
                   tracker |-> t, pool |-> a.pool]
             ELSE [ret |-> a.block, diag |-> "",
                   tracker |-> recordAllocation(t, a.block, size, "MemoryPool", 0),
                   pool |-> a.pool]

\* mutant: the record is removed, the block is not given to the pool
operator_delete_pool_recordOnly(t, p, ptr) ==
    IF ptr = nullptr THEN [diag |-> "", tracker |-> t, pool |-> p]
    ELSE LET t1 == IF isTracked(t, ptr) THEN recordDeallocation(t, ptr).tracker ELSE t
         IN  [diag |-> "", tracker |-> t1, pool |-> p]

\* operator delete(void*, MemoryPool&)
operator_delete_pool(t, p, ptr) ==
    IF ptr = nullptr THEN [diag |-> "", tracker |-> t, pool |-> p]
    ELSE LET t1 == IF isTracked(t, ptr) THEN recordDeallocation(t, ptr).tracker ELSE t
             d == deallocate(p, ptr)
         IN  [diag |-> d.diag, tracker |-> t1, pool |-> d.pool]

\* operator new[](size_t)
operator_new_array(t, size, ptr) ==
    IF ptr = nullptr
    THEN [ret |-> nullptr, diag |-> "bad_alloc", tracker |-> t]
    ELSE [ret |-> ptr, diag |-> "",
          tracker |-> recordAllocation(t, ptr, size, "Unknown[]", 0)]

\* operator delete[](void*)
operator_delete_array(t, ptr) ==
    IF ptr = nullptr THEN [diag |-> "", tracker |-> t, freed |-> {}]
    ELSE LET d == recordDeallocation(t, ptr)
         IN  [diag |-> d.diag, tracker |-> d.tracker, freed |-> {ptr}]

\* ---- new-expressions whose constructor throws -----------------------------------
\* The storage comes from the operator new the expression selects; when the
\* constructor throws, the operator delete with the matching signature is called
\* on it and the exception propagates.

\* new Widget(true)
new_Widget_throws(t, size, ptr) ==
    LET a == operator_new(t, size, ptr)
    IN  IF a.ret = nullptr
        THEN [acquired |-> nullptr, tracker |-> a.tracker, freed |-> {}]
        ELSE LET r == operator_delete(a.tracker, a.ret)
             IN  [acquired |-> a.ret, tracker |-> r.tracker, freed |-> r.freed]

\* TRACKED_NEW Widget(true)
TRACKED_NEW_Widget_throws(t, size, file, line, ptr) ==
    LET a == operator_new_file_line(t, size, file, line, ptr)
    IN  IF a.ret = nullptr
        THEN [acquired |-> nullptr, tracker |-> a.tracker, freed |-> {}]
        ELSE LET r == operator_delete_file_line(a.tracker, a.ret, file, line)
             IN  [acquired |-> a.ret, tracker |-> r.tracker, freed |-> r.freed]

\* POOL_NEW(pool) Widget(true)
POOL_NEW_Widget_throws(t, p, size) ==
    LET a == operator_new_pool(t, p, size)
    IN  IF a.ret = nullptr
        THEN [acquired |-> nullptr, tracker |-> a.tracker, pool |-> a.pool]
        ELSE LET r == operator_delete_pool(a.tracker, a.pool, a.ret)
             IN  [acquired |-> a.ret, tracker |-> r.tracker, pool |-> r.pool]

\* ---- the C library heap ------------------------------------------------------
\* what malloc may return: an address it does not have out, or nullptr
malloc == (HeapAddrs \ heap) \cup {nullptr}

\* the effect of malloc having returned ptr
Malloced(ptr) ==
    /\ heap' = IF ptr = nullptr THEN heap ELSE heap \cup {ptr}
    /\ crashed' = crashed

\* free() of each address in freed.  An address malloc has out goes back.  Any
\* other address is undefined behaviour: the C library ends the process
\* ("free(): invalid pointer"), or the call goes unnoticed and the process runs on.
Freed(addresses) ==
    /\ heap' = heap \ addresses
    /\ IF addresses \subseteq heap THEN crashed' = crashed ELSE crashed' \in BOOLEAN

\* ---- what the callers of the pool remember ------------------------------------
\* after allocate() returned block
AfterAllocate(block) ==
    /\ held' = IF block = nullptr THEN held ELSE held \cup {block}
    /\ freedOrder' = Remove(freedOrder, block)
    /\ allocLog' = IF pristine /\ Len(allocLog) <= numBlocks(pool)
                   THEN Append(allocLog, block) ELSE allocLog
    /\ pristine' = pristine

\* after deallocate(ptr) printed diag
AfterDeallocate(ptr, diag) ==
    /\ held' = IF diag = "Recycled" THEN held \ {ptr} ELSE held
    /\ freedOrder' = IF diag = "Recycled" THEN Append(freedOrder, ptr) ELSE freedOrder
    /\ allocLog' = <<>>
    /\ pristine' = FALSE

\* ---- the state after construction ----------------------------------------------
\* the pool and the tracker's map, nothing allocated, every thread idle
InitObjects ==
    /\ \E blockSize \in 1 .. MaxBlockSize, poolSize \in 1 .. MaxPoolSize :
          pool = MemoryPool(blockSize, poolSize)
    /\ tracker = MemoryTracker
    /\ heap = {}
    /\ crashed = FALSE
    /\ held = {} /\ freedOrder = <<>> /\ allocLog = <<>> /\ pristine = TRUE
    /\ new_handler = "memoryExhausted"
    /\ tornDown = FALSE /\ reserveFrees = 0
    /\ newPc = "idle" /\ handlerRuns = 0 /\ outOfMemory = FALSE
    /\ mutex_pool = NoThread /\ mutex_tracker = NoThread
    /\ pc = [th \in Threads |-> <<"idle", 0>>]
    /\ reg = [th \in Threads |->
                [ptr |-> nullptr, flag |-> FALSE, count |-> NotRead, used |-> NotRead]]
    /\ owns = [th \in Threads |-> {}]

\* the tracker's constructor got its reserve from malloc
InitReserve(ptr) ==
    /\ emergencyReserve_ = createEmergencyReserve(ptr).emergencyReserve_
    /\ created = createEmergencyReserve(ptr).created

Init == InitObjects /\ InitReserve(EmergencyAddr)

\* as Init, but malloc may have had no memory for the reserve
InitExhaust == InitObjects /\ \E ptr \in {nullptr, EmergencyAddr} : InitReserve(ptr)

\* ---- one action per operation ----------------------------------------------------
\* pool.allocate()
Allocate ==
    /\ ~crashed /\ ~tornDown
    /\ LET a == allocate(pool)
       IN  pool' = a.pool /\ AfterAllocate(a.block)
    /\ UNCHANGED <<tracker, heap, crashed, reserveVars, outOfMemory, threadVars>>

\* pool.deallocate(ptr)
Deallocate(ptr) ==
    /\ ~crashed /\ ~tornDown
    /\ LET d == deallocate(pool, ptr)
       IN  pool' = d.pool /\ AfterDeallocate(ptr, d.diag)
    /\ UNCHANGED <<tracker, heap, crashed, reserveVars, outOfMemory, threadVars>>

\* new Widget
OperatorNew(size) ==
    /\ ~crashed /\ ~tornDown
    /\ getTotalAllocated(tracker) + size <= MaxTotal
    /\ \E ptr \in malloc :
          /\ tracker' = operator_new(tracker, size, ptr).tracker
          /\ Malloced(ptr)
          /\ outOfMemory' = (outOfMemory \/ ptr = nullptr)
    /\ UNCHANGED <<pool, clientVars, reserveVars, threadVars>>

\* delete w
OperatorDelete(ptr) ==
    /\ ~crashed /\ ~tornDown
    /\ LET r == operator_delete(tracker, ptr)
       IN  tracker' = r.tracker /\ Freed(r.freed)
    /\ UNCHANGED <<pool, clientVars, reserveVars, outOfMemory, threadVars>>

\* TRACKED_NEW Widget
OperatorNewTagged(size) ==
    /\ ~crashed /\ ~tornDown
    /\ getTotalAllocated(tracker) + size <= MaxTotal
    /\ \E ptr \in malloc :
          /\ tracker' = operator_new_file_line(tracker, size, "f.cc", 10, ptr).tracker
          /\ Malloced(ptr)
          /\ outOfMemory' = (outOfMemory \/ ptr = nullptr)
    /\ UNCHANGED <<pool, clientVars, reserveVars, threadVars>>

\* the placement delete of TRACKED_NEW
OperatorDeleteTagged(ptr) ==
    /\ ~crashed /\ ~tornDown
    /\ LET r == operator_delete_file_line(tracker, ptr, "f.cc", 10)
       IN  tracker' = r.tracker /\ Freed(r.freed)
    /\ UNCHANGED <<pool, clientVars, reserveVars, outOfMemory, threadVars>>

\* new Widget[n]
OperatorNewArray(size) ==
    /\ ~crashed /\ ~tornDown
    /\ getTotalAllocated(tracker) + size <= MaxTotal
    /\ \E ptr \in malloc :
          /\ tracker' = operator_new_array(tracker, size, ptr).tracker
          /\ Malloced(ptr)
          /\ outOfMemory' = (outOfMemory \/ ptr = nullptr)
    /\ UNCHANGED <<pool, clientVars, reserveVars, threadVars>>

\* delete[] wArray
OperatorDeleteArray(ptr) ==
    /\ ~crashed /\ ~tornDown
    /\ LET r == operator_delete_array(tracker, ptr)
       IN  tracker' = r.tracker /\ Freed(r.freed)
    /\ UNCHANGED <<pool, clientVars, reserveVars, outOfMemory, threadVars>>

\* POOL_NEW(pool) Widget
OperatorNewPool(size) ==
    /\ ~crashed /\ ~tornDown
    /\ getTotalAllocated(tracker) + size <= MaxTotal
    /\ LET r == operator_new_pool(tracker, pool, size)
       IN  /\ tracker' = r.tracker
           /\ pool' = r.pool
           /\ IF size > getBlockSize(pool)
              THEN UNCHANGED clientVars
              ELSE AfterAllocate(r.ret)
    /\ UNCHANGED <<heap, crashed, reserveVars, outOfMemory, threadVars>>

\* the placement delete of POOL_NEW
OperatorDeletePool(ptr) ==
    /\ ~crashed /\ ~tornDown
    /\ LET r == operator_delete_pool(tracker, pool, ptr)
       IN  /\ tracker' = r.tracker
           /\ pool' = r.pool
           /\ IF ptr = nullptr
              THEN UNCHANGED clientVars
              ELSE AfterDeallocate(ptr, r.diag)
    /\ UNCHANGED <<heap, crashed, reserveVars, outOfMemory, threadVars>>

Next ==
    \/ Allocate
    \/ \E ptr \in Addrs : Deallocate(ptr)
    \/ \E size \in 0 .. MaxSize : OperatorNew(size)
    \/ \E ptr \in Addrs : OperatorDelete(ptr)
    \/ \E size \in 0 .. MaxSize : OperatorNewTagged(size)
    \/ \E ptr \in Addrs : OperatorDeleteTagged(ptr)
    \/ \E size \in 0 .. MaxSize : OperatorNewArray(size)
    \/ \E ptr \in Addrs : OperatorDeleteArray(ptr)
    \/ \E size \in 0 .. (MaxBlockSize + 1) : OperatorNewPool(size)
    \/ \E ptr \in Addrs : OperatorDeletePool(ptr)

\* every operation of Trackable and of the pool, in any order
Spec == Init /\ [][Next]_vars

NextPool ==
    \/ Allocate
    \/ \E ptr \in Addrs : Deallocate(ptr)

NextHeap ==
    \/ \E size \in 0 .. MaxSize : OperatorNew(size)
    \/ \E ptr \in Addrs : OperatorDelete(ptr)
    \/ \E size \in 0 .. MaxSize : OperatorNewTagged(size)
    \/ \E ptr \in Addrs : OperatorDeleteTagged(ptr)
    \/ \E size \in 0 .. MaxSize : OperatorNewArray(size)
    \/ \E ptr \in Addrs : OperatorDeleteArray(ptr)

\* the heap-backed overloads of Trackable alone
SpecHeap == Init /\ [][NextHeap]_vars

\* the pool alone, driven by allocate() and deallocate() with any address
SpecPool == Init /\ [][NextPool]_vars

NextPooled ==
    \/ Allocate
    \/ \E ptr \in Addrs : Deallocate(ptr)
    \/ \E size \in 0 .. (MaxBlockSize + 1) : OperatorNewPool(size)
    \/ \E ptr \in Addrs : OperatorDeletePool(ptr)

\* the pool, used directly and through the pooled overloads of Trackable
SpecPooled == Init /\ [][NextPooled]_vars

\* ---- heap exhaustion -----------------------------------------------------------------
\* The runtime's ::operator new, asked for more than the heap can give (the
\* new char[1GB] of testNewHandler): malloc fails, the installed handler is called
\* and the request retried; std::bad_alloc is thrown when no handler is installed.

\* what a run of memoryExhausted does to the reserve and to the handler slot
HandlerRun ==
    LET m == memoryExhausted(emergencyReserve_, new_handler)
    IN  /\ emergencyReserve_' = m.emergencyReserve_
        /\ new_handler' = m.new_handler
        /\ reserveFrees' = reserveFrees + Cardinality(m.freed)

\* new char[...] is entered
NewStart ==
    /\ ~crashed /\ ~tornDown
    /\ newPc = "idle"
    /\ newPc' = "malloc"
    /\ UNCHANGED <<pool, tracker, heap, crashed, clientVars, emergencyReserve_, created,
                   new_handler, tornDown, reserveFrees, handlerRuns, outOfMemory,
                   threadVars>>

\* its malloc fails: the handler is fetched, and without one bad_alloc is thrown
NewMalloc ==
    /\ ~crashed
    /\ newPc = "malloc"
    /\ newPc' = IF new_handler = NoHandler THEN "thrown" ELSE "handler"
    /\ UNCHANGED <<pool, tracker, heap, crashed, clientVars, emergencyReserve_, created,
                   new_handler, tornDown, reserveFrees, handlerRuns, outOfMemory,
                   threadVars>>

\* the handler is called, then the request is retried
NewHandler ==
    /\ ~crashed
    /\ newPc = "handler"
    /\ handlerRuns < MaxHandlerRuns
    /\ reserveFrees < MaxReserveFrees
    /\ HandlerRun
    /\ handlerRuns' = handlerRuns + 1
    /\ newPc' = "malloc"
    /\ UNCHANGED <<pool, tracker, heap, crashed, clientVars, created, tornDown,
                   outOfMemory, threadVars>>

\* catch (const std::bad_alloc&)
NewCaught ==
    /\ ~crashed
    /\ newPc = "thrown"
    /\ newPc' = "idle"
    /\ UNCHANGED <<pool, tracker, heap, crashed, clientVars, emergencyReserve_, created,
                   new_handler, tornDown, reserveFrees, handlerRuns, outOfMemory,
                   threadVars>>

\* MemoryTracker::memoryExhausted() called directly, between two requests
MemoryExhausted ==
    /\ ~crashed
    /\ newPc = "idle"
    /\ reserveFrees < MaxReserveFrees
    /\ HandlerRun
    /\ UNCHANGED <<pool, tracker, heap, crashed, clientVars, created, tornDown, newPc,
                   handlerRuns, outOfMemory, threadVars>>

\* the singleton is destroyed at exit
Teardown ==
    /\ ~crashed /\ ~tornDown
    /\ newPc = "idle"
    /\ reserveFrees < MaxReserveFrees
    /\ LET d == MemoryTracker_destroy(tracker, emergencyReserve_)
       IN  /\ emergencyReserve_' = d.emergencyReserve_
           /\ reserveFrees' = reserveFrees + Cardinality(d.freed)
    /\ tornDown' = TRUE
    /\ UNCHANGED <<pool, tracker, heap, crashed, clientVars, created, new_handler,
                   newPc, handlerRuns, outOfMemory, threadVars>>

NextExhaust ==
    \/ \E size \in 0 .. MaxSize : OperatorNew(size)
    \/ \E ptr \in Addrs : OperatorDelete(ptr)
    \/ \E size \in 0 .. MaxSize : OperatorNewTagged(size)
    \/ \E size \in 0 .. MaxSize : OperatorNewArray(size)
    \/ NewStart
    \/ NewMalloc
    \/ NewHandler
    \/ NewCaught
    \/ MemoryExhausted
    \/ Teardown

\* heap acquisitions of Trackable, and requests the heap cannot satisfy
SpecExhaust == InitExhaust /\ [][NextExhaust]_vars

\* the retry loop of ::operator new is straight-line code: it keeps running
FairSpecExhaust == SpecExhaust /\ WF_vars(NewMalloc) /\ WF_vars(NewHandler)

NextLeak ==
    \/ \E size \in 0 .. MaxSize : OperatorNew(size)
    \/ \E ptr \in Addrs : OperatorDelete(ptr)
    \/ \E size \in 0 .. (MaxBlockSize + 1) : OperatorNewPool(size)
    \/ \E ptr \in Addrs : Deallocate(ptr)
    \/ Teardown

\* what main() does before the tracker is destroyed: plain and pooled
\* acquisitions, plain releases, blocks handed back with pool.deallocate()
SpecLeak == Init /\ [][NextLeak]_vars

\* ---- threads ------------------------------------------------------------------------
\* Each operation is the sequence of steps a thread takes through it.  A thread
\* is at <<operation, index of its next step>>, or at <<"idle", 0>>.

\* mutant: the guard does not wait for the mutex
lock_guard_noWait(m) == TRUE

\* std::lock_guard<std::mutex> lock(m) can be passed when m is free
lock_guard(m) == m = NoThread

\* MemoryPool::allocate, statement by statement
allocate_steps ==
    <<"lock pool", "back", "pop_back", "used_ += blockSize_", "unlock pool", "return">>

\* MemoryPool::deallocate, statement by statement
deallocate_steps ==
    <<"lock pool", "check", "push_back", "used_ -= blockSize_", "unlock pool">>

\* Trackable::operator new(size_t) and operator new(size_t, const char*, int)
operator_new_steps ==
    <<"malloc", "throw if null", "lock tracker", "recordAllocation", "unlock tracker",
      "return">>

\* Trackable::operator delete(void*)
operator_delete_steps ==
    <<"lock tracker", "isTracked", "unlock tracker", "if tracked",
      "lock tracker", "recordDeallocation", "unlock tracker", "free if tracked">>

\* mutant: the memory is freed before the record is removed
operator_delete_file_line_steps_freeFirst ==
    <<"free", "lock tracker", "recordDeallocation", "unlock tracker">>

\* Trackable::operator delete(void*, const char*, int)
operator_delete_file_line_steps ==
    <<"lock tracker", "recordDeallocation", "unlock tracker", "free">>

\* Trackable::operator new(size_t, MemoryPool&)
operator_new_pool_steps ==
    <<"lock pool", "allocate", "unlock pool", "throw if null",
      "lock tracker", "recordAllocation", "unlock tracker", "return">>

\* mutant: the pool is called with the tracker's mutex held
operator_delete_pool_steps_nested ==
    <<"lock tracker", "isTracked", "recordDeallocation",
      "lock pool", "deallocate", "unlock pool", "unlock tracker">>

\* Trackable::operator delete(void*, MemoryPool&)
operator_delete_pool_steps ==
    <<"lock tracker", "isTracked", "unlock tracker", "if tracked",
      "lock tracker", "recordDeallocation", "unlock tracker",
      "lock pool", "deallocate", "unlock pool">>

\* mutant: the two getters read without the guard
snapshot_steps_unguarded == <<"freeList_.size()", "used_">>

\* pool.getFreeCount() followed by pool.getUsed(), as testMemoryPool prints them
snapshot_steps ==
    <<"lock pool", "freeList_.size()", "unlock pool", "lock pool", "used_", "unlock pool">>

\* MemoryTracker::memoryExhausted with releaseEmergencyReserve inlined
memoryExhausted_steps ==
    <<"if (emergencyReserve_)", "free(emergencyReserve_)", "emergencyReserve_ = nullptr",
      "return true", "set_new_handler(nullptr)">>

Steps(op) ==
    CASE op = "allocate" -> allocate_steps
      [] op = "deallocate" -> deallocate_steps
      [] op \in {"new", "new tagged"} -> operator_new_steps
      [] op = "delete" -> operator_delete_steps
      [] op = "delete tagged" -> operator_delete_file_line_steps
      [] op = "new pool" -> operator_new_pool_steps
      [] op = "delete pool" -> operator_delete_pool_steps
      [] op = "snapshot" -> snapshot_steps
      [] op = "memoryExhausted" -> memoryExhausted_steps

\* the origin the operation records with an allocation
Origin(op) ==
    CASE op = "new" -> "Unknown"
      [] op = "new tagged" -> "f.cc"
      [] op = "new pool" -> "MemoryPool"

Idle == <<"idle", 0>>

Busy(th) == pc[th] # Idle

\* the step thread th is about to take
Instr(th) == Steps(pc[th][1])[pc[th][2]]

\* thread th moves on by n steps, or out of the operation at its end
Goto(th, n) ==
    pc' = [pc EXCEPT ![th] = IF pc[th][2] + n > Len(Steps(pc[th][1]))
                             THEN Idle ELSE <<pc[th][1], pc[th][2] + n>>]

\* thread th enters operation op with argument ptr
Call(th, op, ptr) ==
    /\ ~crashed /\ ~tornDown
    /\ ~Busy(th)
    /\ pc' = [pc EXCEPT ![th] = <<op, 1>>]
    /\ reg' = [reg EXCEPT ![th] = [ptr |-> ptr, flag |-> FALSE,
                                    count |-> NotRead, used |-> NotRead]]
    /\ owns' = [owns EXCEPT ![th] = @ \ {ptr}]
    /\ UNCHANGED <<pool, tracker, heap, crashed, clientVars, reserveVars, outOfMemory,
                   mutex_pool, mutex_tracker>>

ThreadAllocate(th) == th \in Threads /\ Call(th, "allocate", nullptr)

ThreadDeallocate(th, ptr) == ptr \in owns[th] /\ Call(th, "deallocate", ptr)

ThreadNew(th) == th \in Threads /\ Call(th, "new", nullptr)

ThreadDelete(th, ptr) == ptr \in owns[th] \cap HeapAddrs /\ Call(th, "delete", ptr)

ThreadNewTagged(th) == th \in Threads /\ Call(th, "new tagged", nullptr)

ThreadDeleteTagged(th, ptr) ==
    ptr \in owns[th] \cap HeapAddrs /\ Call(th, "delete tagged", ptr)

ThreadNewPool(th) == th \in Threads /\ Call(th, "new pool", nullptr)

ThreadDeletePool(th, ptr) ==
    ptr \in owns[th] \ HeapAddrs /\ Call(th, "delete pool", ptr)

\* operator new(size_t) while the tracker's total is below MaxTotal
ThreadNewWithinTotal(th) ==
    th \in Threads /\ getTotalAllocated(tracker) < MaxTotal /\ Call(th, "new", nullptr)

\* thread th releases an address that any thread may also be releasing
ThreadDeleteShared(th, ptr) ==
    ptr \in HeapAddrs /\ isTracked(tracker, ptr) /\ Call(th, "delete", ptr)

\* the new-handler is invoked on thread th
ThreadMemoryExhausted(th) == th \in Threads /\ Call(th, "memoryExhausted", nullptr)

ThreadSnapshot(th) == th \in Threads /\ Call(th, "snapshot", nullptr)

\* thread th passes a lock_guard
ThreadLock(th) ==
    /\ ~crashed
    /\ Busy(th)
    /\ \/ /\ Instr(th) = "lock pool"
          /\ lock_guard(mutex_pool)
          /\ mutex_pool' = th
          /\ UNCHANGED mutex_tracker
       \/ /\ Instr(th) = "lock tracker"
          /\ lock_guard(mutex_tracker)
          /\ mutex_tracker' = th
          /\ UNCHANGED mutex_pool
    /\ Goto(th, 1)
    /\ UNCHANGED <<pool, tracker, heap, crashed, clientVars, reserveVars, outOfMemory,
                   reg, owns>>

\* thread th leaves the scope of a lock_guard
ThreadUnlock(th) ==
    /\ ~crashed
    /\ Busy(th)
    /\ \/ /\ Instr(th) = "unlock pool"
          /\ mutex_pool' = NoThread
          /\ UNCHANGED mutex_tracker
       \/ /\ Instr(th) = "unlock tracker"
          /\ mutex_tracker' = NoThread
          /\ UNCHANGED mutex_pool
    /\ Goto(th, 1)
    /\ UNCHANGED <<pool, tracker, heap, crashed, clientVars, reserveVars, outOfMemory,
                   reg, owns>>

\* a statement of MemoryPool::allocate or MemoryPool::deallocate
PoolStatement(th) ==
    /\ ~crashed
    /\ Busy(th)
    /\ LET ptr == reg[th].ptr
       IN  \/ /\ Instr(th) = "back"
              /\ reg' = [reg EXCEPT ![th].ptr = allocate(pool).block]
              /\ IF allocate(pool).block = nullptr THEN Goto(th, 3) ELSE Goto(th, 1)
              /\ UNCHANGED pool
           \/ /\ Instr(th) = "pop_back"
              /\ pool' = [pool EXCEPT !.freeList_ = Front(@)]
              /\ Goto(th, 1)
              /\ UNCHANGED reg
           \/ /\ Instr(th) = "used_ += blockSize_"
              /\ pool' = [pool EXCEPT !.used_ = (@ + pool.blockSize_) % SizeMod]
              /\ Goto(th, 1)
              /\ UNCHANGED reg
           \/ /\ Instr(th) = "check"
              /\ IF deallocate(pool, ptr).diag = "Recycled" THEN Goto(th, 1) ELSE Goto(th, 3)
              /\ UNCHANGED <<pool, reg>>
           \/ /\ Instr(th) = "push_back"
              /\ pool' = [pool EXCEPT !.freeList_ = Append(@, ptr)]
              /\ Goto(th, 1)
              /\ UNCHANGED reg
           \/ /\ Instr(th) = "used_ -= blockSize_"
              /\ pool' = [pool EXCEPT !.used_ = (@ - pool.blockSize_) % SizeMod]
              /\ Goto(th, 1)
              /\ UNCHANGED reg
    /\ UNCHANGED <<tracker, heap, crashed, clientVars, reserveVars, outOfMemory,
                   mutex_pool, mutex_tracker, owns>>

\* the read of MemoryPool::getFreeCount or MemoryPool::getUsed
PoolRead(th) ==
    /\ ~crashed
    /\ Busy(th)
    /\ \/ /\ Instr(th) = "freeList_.size()"
          /\ reg' = [reg EXCEPT ![th].count = getFreeCount(pool)]
       \/ /\ Instr(th) = "used_"
          /\ reg' = [reg EXCEPT ![th].used = getUsed(pool)]
    /\ Goto(th, 1)
    /\ UNCHANGED <<pool, tracker, heap, crashed, clientVars, reserveVars, outOfMemory,
                   mutex_pool, mutex_tracker, owns>>

\* a statement of memoryExhausted / releaseEmergencyReserve; no mutex is taken.
\* emergencyReserve_ is read for the test and again for free(): with another
\* thread writing it in between, the value freed is the one tested or the one
\* found then, and freeing the buffer a second time is undefined.
HookStatement(th) ==
    /\ ~crashed
    /\ Busy(th)
    /\ \/ /\ Instr(th) = "if (emergencyReserve_)"
          /\ reg' = [reg EXCEPT ![th].ptr = emergencyReserve_]
          /\ IF emergencyReserve_ # nullptr THEN Goto(th, 1) ELSE Goto(th, 4)
          /\ UNCHANGED <<emergencyReserve_, new_handler, reserveFrees, crashed>>
       \/ /\ Instr(th) = "free(emergencyReserve_)"
          /\ \E buffer \in {reg[th].ptr, emergencyReserve_} :
                IF buffer = nullptr
                THEN UNCHANGED <<reserveFrees, crashed>>
                ELSE /\ reserveFrees < MaxReserveFrees
                     /\ reserveFrees' = reserveFrees + 1
                     /\ IF reserveFrees >= 1
                        THEN crashed' \in BOOLEAN
                        ELSE UNCHANGED crashed
          /\ Goto(th, 1)
          /\ UNCHANGED <<emergencyReserve_, new_handler, reg>>
       \/ /\ Instr(th) = "emergencyReserve_ = nullptr"
          /\ emergencyReserve_' = nullptr
          /\ Goto(th, 1)
          /\ UNCHANGED <<new_handler, reserveFrees, crashed, reg>>
       \/ /\ Instr(th) = "return true"
          /\ reg' = [reg EXCEPT ![th].flag = TRUE]
          /\ Goto(th, 2)
          /\ UNCHANGED <<emergencyReserve_, new_handler, reserveFrees, crashed>>
       \/ /\ Instr(th) = "set_new_handler(nullptr)"
          /\ new_handler' = NoHandler
          /\ Goto(th, 1)
          /\ UNCHANGED <<emergencyReserve_, reserveFrees, crashed, reg>>
    /\ UNCHANGED <<pool, tracker, heap, clientVars, created, tornDown, newPc, handlerRuns,
                   outOfMemory, mutex_pool, mutex_tracker, owns>>

\* the body of pool.allocate() or pool.deallocate(ptr), run under the pool's mutex
PoolCall(th) ==
    /\ ~crashed
    /\ Busy(th)
    /\ \/ /\ Instr(th) = "allocate"
          /\ pool' = allocate(pool).pool
          /\ reg' = [reg EXCEPT ![th].ptr = allocate(pool).block]
       \/ /\ Instr(th) = "deallocate"
          /\ pool' = deallocate(pool, reg[th].ptr).pool
          /\ UNCHANGED reg
    /\ Goto(th, 1)
    /\ UNCHANGED <<tracker, heap, crashed, clientVars, reserveVars, outOfMemory,
                   mutex_pool, mutex_tracker, owns>>

\* the body of a MemoryTracker member, run under the tracker's mutex
TrackerCall(th) ==
    /\ ~crashed
    /\ Busy(th)
    /\ LET ptr == reg[th].ptr
       IN  \/ /\ Instr(th) = "recordAllocation"
              /\ tracker' = recordAllocation(tracker, ptr, 1, Origin(pc[th][1]), 0)
              /\ UNCHANGED reg
           \/ /\ Instr(th) = "isTracked"
              /\ reg' = [reg EXCEPT ![th].flag = isTracked(tracker, ptr)]
              /\ UNCHANGED tracker
           \/ /\ Instr(th) = "recordDeallocation"
              /\ tracker' = recordDeallocation(tracker, ptr).tracker
              /\ UNCHANGED reg
    /\ Goto(th, 1)
    /\ UNCHANGED <<pool, heap, crashed, clientVars, reserveVars, outOfMemory,
                   mutex_pool, mutex_tracker, owns>>

\* a test on the thread's own variables
LocalStep(th) ==
    /\ ~crashed
    /\ Busy(th)
    /\ \/ /\ Instr(th) = "throw if null"
          /\ IF reg[th].ptr = nullptr
             THEN /\ pc' = [pc EXCEPT ![th] = Idle]
                  /\ outOfMemory' = (outOfMemory \/ pc[th][1] \in {"new", "new tagged"})
             ELSE Goto(th, 1) /\ UNCHANGED outOfMemory
       \/ /\ Instr(th) = "if tracked"
          /\ IF reg[th].flag THEN Goto(th, 1) ELSE Goto(th, 4)
          /\ UNCHANGED outOfMemory
    /\ UNCHANGED <<pool, tracker, heap, crashed, clientVars, reserveVars,
                   mutex_pool, mutex_tracker, reg, owns>>

\* malloc or free
HeapCall(th) ==
    /\ ~crashed
    /\ Busy(th)
    /\ \/ /\ Instr(th) = "malloc"
          /\ \E ptr \in malloc :
                /\ reg' = [reg EXCEPT ![th].ptr = ptr]
                /\ Malloced(ptr)
       \/ /\ Instr(th) = "free"
          /\ Freed({reg[th].ptr})
          /\ UNCHANGED reg
       \/ /\ Instr(th) = "free if tracked"
          /\ Freed(IF reg[th].flag THEN {reg[th].ptr} ELSE {})
          /\ UNCHANGED reg
    /\ Goto(th, 1)
    /\ UNCHANGED <<pool, tracker, clientVars, reserveVars, outOfMemory,
                   mutex_pool, mutex_tracker, owns>>

\* the operation hands its result to the thread
ThreadReturn(th) ==
    /\ ~crashed
    /\ Busy(th)
    /\ Instr(th) = "return"
    /\ owns' = [owns EXCEPT ![th] = @ \cup ({reg[th].ptr} \ {nullptr})]
    /\ Goto(th, 1)
    /\ UNCHANGED <<pool, tracker, heap, crashed, clientVars, reserveVars, outOfMemory,
                   mutex_pool, mutex_tracker, reg>>

NextPoolThreads ==
    \/ \E th \in Threads : ThreadAllocate(th)
    \/ \E th \in Threads : \E ptr \in Addrs : ThreadDeallocate(th, ptr)
    \/ \E th \in Threads : ThreadLock(th)
    \/ \E th \in Threads : PoolStatement(th)
    \/ \E th \in Threads : ThreadUnlock(th)
    \/ \E th \in Threads : ThreadReturn(th)

\* several threads in allocate() and deallocate() of one pool
SpecPoolThreads == Init /\ [][NextPoolThreads]_vars

NextRouterThreads ==
    \/ \E th \in Threads : ThreadNew(th)
    \/ \E th \in Threads : \E ptr \in Addrs : ThreadDelete(th, ptr)
    \/ \E th \in Threads : ThreadNewTagged(th)
    \/ \E th \in Threads : \E ptr \in Addrs : ThreadDeleteTagged(th, ptr)
    \/ \E th \in Threads : ThreadNewPool(th)
    \/ \E th \in Threads : \E ptr \in Addrs : ThreadDeletePool(th, ptr)
    \/ \E th \in Threads : ThreadLock(th)
    \/ \E th \in Threads : PoolCall(th)
    \/ \E th \in Threads : TrackerCall(th)
    \/ \E th \in Threads : LocalStep(th)
    \/ \E th \in Threads : HeapCall(th)
    \/ \E th \in Threads : ThreadUnlock(th)
    \/ \E th \in Threads : ThreadReturn(th)

\* as Init, with a pool of at most MaxRouterPool bytes
InitRouterThreads == Init /\ pool.poolSize_ <= MaxRouterPool

\* several threads in the operator new / operator delete overloads of Trackable
SpecRouterThreads == InitRouterThreads /\ [][NextRouterThreads]_vars

NextSharedDelete ==
    \/ \E th \in Threads : ThreadNewWithinTotal(th)
    \/ \E th \in Threads : \E ptr \in Addrs : ThreadDeleteShared(th, ptr)
    \/ \E th \in Threads : ThreadLock(th)
    \/ \E th \in Threads : TrackerCall(th)
    \/ \E th \in Threads : LocalStep(th)
    \/ \E th \in Threads : HeapCall(th)
    \/ \E th \in Threads : ThreadUnlock(th)
    \/ \E th \in Threads : ThreadReturn(th)

\* several threads in operator new(size_t) and in operator delete(void*), where
\* two threads may release the same address
SpecSharedDelete == InitRouterThreads /\ [][NextSharedDelete]_vars

NextHookThreads ==
    \/ \E th \in Threads : ThreadMemoryExhausted(th)
    \/ \E th \in Threads : HookStatement(th)

\* the new-handler invoked on several threads
SpecHookThreads == Init /\ [][NextHookThreads]_vars

NextSnapshotThreads ==
    \/ \E th \in Threads : ThreadAllocate(th)
    \/ \E th \in Threads : \E ptr \in Addrs : ThreadDeallocate(th, ptr)
    \/ \E th \in Threads : ThreadSnapshot(th)
    \/ \E th \in Threads : ThreadLock(th)
    \/ \E th \in Threads : PoolStatement(th)
    \/ \E th \in Threads : PoolRead(th)
    \/ \E th \in Threads : ThreadUnlock(th)
    \/ \E th \in Threads : ThreadReturn(th)

\* threads that read the pool's two counters while others allocate and deallocate
SpecSnapshotThreads == InitRouterThreads /\ [][NextSnapshotThreads]_vars

\* ---- properties ------------------------------------------------------------------
InvalidRelease == {"NotInPool", "NotBlockStart"}

Aligned(p, addr) == (addr - memory_) % p.blockSize_ = 0

InRange(p, addr) == addr >= memory_ /\ addr < memory_ + p.poolSize_

Tracked == DOMAIN tracker.allocations_

\* C1: for a pool of N = floor(poolSize/blockSize) blocks of size B, after any
\* sequence of allocate() and deallocate(addr) calls,
\* freeBlockCount()*B + usedBytes() = N*B.
C1_Conservation ==
    getFreeCount(pool) * getBlockSize(pool) + getUsed(pool)
        = numBlocks(pool) * getBlockSize(pool)

C3_TotalIsSumOfRecords ==
    getTotalAllocated(tracker) = SumSizes(tracker.allocations_, Tracked)

\* C4: allocate() on a pool whose free list is empty returns nullptr and leaves
\* the free list and usedBytes() unchanged.
C4_ExhaustedChangesNothing ==
    pool.freeList_ = <<>> =>
        LET a == allocate(pool)
        IN  /\ a.block = nullptr
            /\ a.pool.freeList_ = pool.freeList_
            /\ getUsed(a.pool) = getUsed(pool)

\* C4's case: every block was drawn and one more allocate() was made; it returned
\* nullptr.
C4_Witness ==
    /\ pool.freeList_ = <<>>
    /\ numBlocks(pool) >= 2
    /\ pristine
    /\ Len(allocLog) = numBlocks(pool) + 1
    /\ Last(allocLog) = nullptr

\* C5: deallocate(addr) with addr outside [base, base+poolSize), or inside it with
\* (addr - base) % blockSize # 0, reports InvalidRelease and leaves the free list
\* and usedBytes() unchanged.
C5_InvalidReleaseChangesNothing ==
    \A addr \in Addrs :
        (~InRange(pool, addr) \/ ~Aligned(pool, addr)) =>
            LET d == deallocate(pool, addr)
            IN  /\ d.diag \in InvalidRelease
                /\ d.pool.freeList_ = pool.freeList_
                /\ getUsed(d.pool) = getUsed(pool)

\* C5's case: blocks are out, blocks came back, and the pool has an address inside
\* its range that starts no block as well as addresses outside its range.
C5_Witness ==
    /\ held # {}
    /\ freedOrder # <<>>
    /\ \E addr \in Addrs : InRange(pool, addr) /\ ~Aligned(pool, addr)
    /\ \E addr \in Addrs : addr # nullptr /\ ~InRange(pool, addr)

\* C6: for any address obtained from allocate() and not given back, of two
\* deallocate(addr) calls in a row the first returns the block to the free list
\* and lowers usedBytes() by blockSize, and the second reports DoubleRelease and
\* changes neither freeBlockCount() nor usedBytes().
C6_DoubleRelease ==
    \A addr \in held :
        LET first == deallocate(pool, addr)
            second == deallocate(first.pool, addr)
        IN  /\ first.diag = "Recycled"
            /\ first.pool.freeList_ = Append(pool.freeList_, addr)
            /\ getUsed(first.pool) = getUsed(pool) - getBlockSize(pool)
            /\ second.diag = "DoubleRelease"
            /\ getFreeCount(second.pool) = getFreeCount(first.pool)
            /\ getUsed(second.pool) = getUsed(first.pool)

\* C7: whenever deallocate(a) succeeds, the next allocate() returns a; and
\* allocate() returns the most recently freed block still in the free list.
C7_LifoReuse ==
    /\ \A addr \in Addrs :
          LET d == deallocate(pool, addr)
          IN  d.diag = "Recycled" => allocate(d.pool).block = addr
    /\ freedOrder # <<>> => allocate(pool).block = Last(freedOrder)

\* C7's case: two blocks were given back and are still free, another is out.
C7_Witness ==
    /\ Len(freedOrder) >= 2
    /\ held # {}

\* C8: on a freshly constructed pool of N blocks, N allocate() calls in a row all
\* succeed and return pairwise distinct addresses, and call N+1 returns nullptr.
C8_FreshPoolDrains ==
    pristine =>
        /\ \A i \in 1 .. Len(allocLog) :
              /\ i <= numBlocks(pool) => allocLog[i] # nullptr
              /\ i = numBlocks(pool) + 1 => allocLog[i] = nullptr
        /\ \A i, j \in 1 .. Len(allocLog) :
              (i < j /\ j <= numBlocks(pool)) => allocLog[i] # allocLog[j]

\* C8's case: a fresh pool of at least three blocks, N+1 allocate() calls made.
C8_Witness ==
    /\ pristine
    /\ numBlocks(pool) >= 3
    /\ Len(allocLog) = numBlocks(pool) + 1

\* C9: the free list holds no address twice, and every address in it is
\* block-aligned and within [base, base + poolSize).
C9_FreeListWellFormed ==
    \A i \in 1 .. Len(pool.freeList_) :
        /\ InRange(pool, pool.freeList_[i])
        /\ Aligned(pool, pool.freeList_[i])
        /\ \A j \in 1 .. Len(pool.freeList_) :
              i # j => pool.freeList_[i] # pool.freeList_[j]

\* C9's case: a free list of several blocks, some of them given back by
\* deallocate(), while other blocks are out.
C9_Witness ==
    /\ Len(pool.freeList_) >= 2
    /\ Len(freedOrder) >= 2
    /\ held # {}

\* C10: operator delete(void*) of a non-null address that is not tracked reports
\* UntrackedRelease, leaves the tracker's records and getTotalAllocated()
\* unchanged, and does not pass the address to free().
C10_UntrackedPlainRelease ==
    \A ptr \in Addrs :
        (ptr # nullptr /\ ~isTracked(tracker, ptr)) =>
            LET r == operator_delete(tracker, ptr)
            IN  /\ r.diag = "UntrackedRelease"
                /\ r.tracker.allocations_ = tracker.allocations_
                /\ getTotalAllocated(r.tracker) = getTotalAllocated(tracker)
                /\ r.freed = {}

\* C10's case: an allocation is live and tracked, and there are addresses no
\* acquisition returned.
C10_Witness ==
    /\ heap # {}
    /\ Tracked = heap
    /\ getTotalAllocated(tracker) > 0
    /\ \E ptr \in Addrs : ptr # nullptr /\ ptr \notin HeapAddrs /\ ~isTracked(tracker, ptr)

\* C11: the tagged release path and the array release path treat a non-null
\* address that is not tracked as the plain path does: the release is reported as
\* UntrackedRelease and the address is not passed to free().
C11_UntrackedTaggedArrayRelease ==
    \A ptr \in Addrs :
        (ptr # nullptr /\ ~isTracked(tracker, ptr)) =>
            LET tagged == operator_delete_file_line(tracker, ptr, "f.cc", 10)
                array == operator_delete_array(tracker, ptr)
            IN  /\ tagged.diag = "UntrackedRelease"
                /\ tagged.tracker = tracker
                /\ tagged.freed = {}
                /\ array.diag = "UntrackedRelease"
                /\ array.tracker = tracker
                /\ array.freed = {}

\* an acquisition a of s bytes at ptr, followed by operator delete of the address
\* it returned: the total goes up by s and the address is tracked, then the total
\* goes down by s, the record is gone and the address went to free(); from an
\* empty tracker the leak report then has no entries
RoundTrip(a, s, ptr) ==
    LET r == operator_delete(a.tracker, a.ret)
    IN  /\ a.ret = ptr
        /\ getTotalAllocated(a.tracker) = getTotalAllocated(tracker) + s
        /\ isTracked(a.tracker, ptr)
        /\ getTotalAllocated(r.tracker) = getTotalAllocated(a.tracker) - s
        /\ ~isTracked(r.tracker, ptr)
        /\ r.freed = {ptr}
        /\ tracker = MemoryTracker => printLeakReport(r.tracker).leaks = {}

\* C12, as stated: the round trip holds for a successful tagged acquisition of
\* any size s and for a successful plain acquisition of s > 0.
C12_RoundTrip ==
    \A ptr \in malloc \ {nullptr} :
        /\ \A s \in 0 .. MaxSize :
              RoundTrip(operator_new_file_line(tracker, s, "f.cc", 10, ptr), s, ptr)
        /\ \A s \in 1 .. MaxSize :
              RoundTrip(operator_new(tracker, s, ptr), s, ptr)

\* C12, amended: the round trip holds for a successful tagged or plain
\* acquisition of s > 0.
C12_RoundTripPositive ==
    \A ptr \in malloc \ {nullptr} :
        \A s \in 1 .. MaxSize :
            /\ RoundTrip(operator_new_file_line(tracker, s, "f.cc", 10, ptr), s, ptr)
            /\ RoundTrip(operator_new(tracker, s, ptr), s, ptr)

\* C12's case: a tagged acquisition of more than one byte is live, it is the only
\* record, and operator delete of its address empties the tracker.
C12_Witness ==
    \E ptr \in heap :
        /\ isTracked(tracker, ptr)
        /\ tracker.allocations_[ptr].file = "f.cc"
        /\ tracker.allocations_[ptr].size > 1
        /\ getTotalAllocated(tracker) = tracker.allocations_[ptr].size
        /\ operator_delete(tracker, ptr).tracker = MemoryTracker

\* C13: when malloc fails in a plain, tagged or array acquisition the exhaustion
\* hook is invoked, so that a reserve still held is released (and the request
\* retried) before OutOfMemory reaches the caller: once an acquisition has returned
\* OutOfMemory the reserve is no longer held.
C13_HookBeforeOutOfMemory ==
    outOfMemory => emergencyReserve_ = nullptr

\* C14: over any sequence of hook invocations followed by teardown the reserve is
\* freed exactly once if it was created (never if it was not): an invocation with
\* the reserve held frees it and signals "retry", any other frees nothing and
\* signals "no recovery", and teardown frees it only if it is still held.
C14_ReserveFreedOnce ==
    /\ reserveFrees <= 1
    /\ ~created => reserveFrees = 0
    /\ (created /\ tornDown) => reserveFrees = 1
    /\ emergencyReserve_ # nullptr => (created /\ reserveFrees = 0)
    /\ LET m == memoryExhausted(emergencyReserve_, new_handler)
           d == MemoryTracker_destroy(tracker, emergencyReserve_)
       IN  IF emergencyReserve_ # nullptr
           THEN /\ m.signal = "retry"
                /\ m.freed = {emergencyReserve_}
                /\ m.emergencyReserve_ = nullptr
                /\ d.freed = {emergencyReserve_}
           ELSE /\ m.signal = "no recovery"
                /\ m.freed = {}
                /\ d.freed = {}

\* C14's case: the reserve was created, the hook ran twice in a retry loop (the
\* first run freed the reserve, the second found none), and the tracker was torn
\* down afterwards.
C14_Witness ==
    /\ created
    /\ tornDown
    /\ handlerRuns = 2
    /\ reserveFrees = 1
    /\ new_handler = NoHandler

\* C15: a request under persistent exhaustion ends with OutOfMemory; the retry loop
\* calls the hook at most twice, the last call uninstalls it, and with no handler
\* installed the hook is never called by the loop again.
C15_RetryLoopTerminates ==
    /\ [](handlerRuns <= 2)
    /\ [](newPc = "thrown" => new_handler = NoHandler)
    /\ [][new_handler = NoHandler => handlerRuns' = handlerRuns]_vars
    /\ (newPc = "malloc") ~> (newPc = "thrown")

\* C15's case: the loop called the hook twice, then bad_alloc was thrown.
C15_Witness ==
    /\ newPc = "thrown"
    /\ handlerRuns = 2
    /\ new_handler = NoHandler
    /\ created

\* C16: a failed pooled acquisition changes nothing: with size > blockSize it fails
\* with RequestTooLarge and no block is drawn from the pool, with an exhausted pool
\* it fails with Exhausted; the free list, usedBytes(), the tracker's records and
\* getTotalAllocated() are as before.
C16_FailedPoolAcquire ==
    \A size \in 0 .. (MaxBlockSize + 1) :
        LET r == operator_new_pool(tracker, pool, size)
        IN  /\ size > getBlockSize(pool) =>
                  /\ r.diag = "bad_alloc:RequestTooLarge"
                  /\ r.ret = nullptr
                  /\ r.pool = pool
                  /\ r.tracker = tracker
            /\ (size <= getBlockSize(pool) /\ pool.freeList_ = <<>>) =>
                  /\ r.diag = "bad_alloc:Exhausted"
                  /\ r.ret = nullptr
                  /\ r.pool = pool
                  /\ r.tracker = tracker

\* C16's case: every block of a pool of two or more blocks is out and tracked, so
\* the next pooled acquisition finds the pool exhausted.
C16_Witness ==
    /\ numBlocks(pool) >= 2
    /\ pool.freeList_ = <<>>
    /\ Cardinality(held) = numBlocks(pool)
    /\ held \subseteq Tracked
    /\ getTotalAllocated(tracker) > 0

\* C17: operator delete(void*) of an address that was acquired from the pool is
\* flagged as a caller error and not carried out as a heap release: the pool block
\* is not passed to free().
C17_PoolBlockNotHeapFreed ==
    \A ptr \in Tracked :
        tracker.allocations_[ptr].file = "MemoryPool" =>
            LET r == operator_delete(tracker, ptr)
            IN  /\ r.diag # ""
                /\ r.freed = {}

\* the tracker says the same after as before: same total, same tracked addresses
SameAccounting(after) ==
    /\ getTotalAllocated(after) = getTotalAllocated(tracker)
    /\ DOMAIN after.allocations_ = Tracked

\* C18: on each acquisition path (plain, tagged, pooled), when the constructor
\* fails after storage was acquired, the storage is released through the release
\* function of the same path, and getTotalAllocated() and the set of tracked
\* addresses are afterwards what they were before the attempt.
C18_ScopedConstruction ==
    /\ \A size \in 0 .. MaxSize : \A ptr \in malloc \ {nullptr} :
          LET plain == new_Widget_throws(tracker, size, ptr)
              tagged == TRACKED_NEW_Widget_throws(tracker, size, "f.cc", 10, ptr)
          IN  /\ plain.freed = {ptr} /\ SameAccounting(plain.tracker)
              /\ tagged.freed = {ptr} /\ SameAccounting(tagged.tracker)
    /\ \A size \in 0 .. MaxBlockSize :
          LET pooled == POOL_NEW_Widget_throws(tracker, pool, size)
          IN  pooled.acquired # nullptr =>
                  /\ pooled.acquired \in Range(pooled.pool.freeList_)
                  /\ SameAccounting(pooled.tracker)

\* C19: for any interleaving of allocate() and deallocate() calls by several
\* threads on one pool, each thread giving back only blocks it holds, no block is
\* held by two threads at once, and freeBlockCount()*B + usedBytes() = N*B whenever
\* no thread is inside the pool's critical section.
C19_PoolThreadSafe ==
    /\ \A t1, t2 \in Threads : t1 # t2 => owns[t1] \cap owns[t2] = {}
    /\ mutex_pool = NoThread =>
          getFreeCount(pool) * getBlockSize(pool) + getUsed(pool)
              = numBlocks(pool) * getBlockSize(pool)

\* C19's case: one thread is inside deallocate() with the block already pushed on
\* the free list, the other holds a block and waits at the lock of allocate().
C19_Witness ==
    \E t1, t2 \in Threads :
        /\ pc[t1] = <<"deallocate", 4>>
        /\ mutex_pool = t1
        /\ pc[t2] = <<"allocate", 1>>
        /\ owns[t2] # {}

\* thread th has a step to take that no mutex keeps it from
Runnable(th) ==
    /\ Busy(th)
    /\ Instr(th) = "lock pool" => lock_guard(mutex_pool)
    /\ Instr(th) = "lock tracker" => lock_guard(mutex_tracker)

\* C20: in the plain, tagged and pooled acquire and release operations no thread
\* holds the tracker's mutex and the pool's mutex at the same time, and no
\* interleaving deadlocks: while some thread is inside an operation, some thread
\* can take a step.
C20_NoLockNesting ==
    /\ \A th \in Threads : ~(mutex_pool = th /\ mutex_tracker = th)
    /\ (~crashed /\ \E th \in Threads : Busy(th)) => \E th \in Threads : Runnable(th)

\* C20's case: one thread is inside the pool's mutex in a pooled acquisition while
\* another is inside the tracker's mutex in a pooled release.
C20_Witness ==
    \E t1, t2 \in Threads :
        /\ pc[t1][1] = "new pool" /\ mutex_pool = t1
        /\ pc[t2][1] = "delete pool" /\ mutex_tracker = t2

\* C21: after any sequence of pooled acquisitions and returns of blocks to the
\* pool, no address is both in the pool's free list and recorded in the tracker.
C21_FreeBlocksUntracked ==
    Tracked \cap Range(pool.freeList_) = {}

\* C22: a pooled release whose validation by the pool fails (address outside the
\* pool, misaligned, or already free) changes nothing: the pool, the tracker's
\* records and getTotalAllocated() are as before.
C22_FailedPoolReleaseNoOp ==
    \A ptr \in Addrs \ {nullptr} :
        deallocate(pool, ptr).diag # "Recycled" =>
            LET r == operator_delete_pool(tracker, pool, ptr)
            IN  /\ r.pool = pool
                /\ r.tracker.allocations_ = tracker.allocations_
                /\ getTotalAllocated(r.tracker) = getTotalAllocated(tracker)

\* C24: a fresh pool has usedBytes() = 0 and a free list of the
\* N = floor(poolSize/blockSize) addresses base + i*blockSize in ascending order;
\* the k-th allocate() on a fresh pool returns base + (N-k)*blockSize.
C24_FreshPoolOrder ==
    pristine =>
        /\ allocLog = <<>> =>
              /\ getUsed(pool) = 0
              /\ Len(pool.freeList_) = numBlocks(pool)
              /\ \A i \in 1 .. Len(pool.freeList_) :
                    pool.freeList_[i] = memory_ + (i - 1) * getBlockSize(pool)
        /\ \A k \in 1 .. Len(allocLog) :
              k <= numBlocks(pool) =>
                  allocLog[k] = memory_ + (numBlocks(pool) - k) * getBlockSize(pool)

\* C24's case: a fresh pool of three or more blocks was drained by allocate().
C24_Witness ==
    /\ pristine
    /\ numBlocks(pool) >= 3
    /\ Len(allocLog) >= numBlocks(pool)
    /\ pool.freeList_ = <<>>

\* C25: after a pooled construction whose constructor failed, freeBlockCount()
\* and usedBytes() are what they were before the attempt, and the block that
\* was drawn is the one the next allocate() returns.
C25_PoolRestored ==
    \A size \in 0 .. MaxBlockSize :
        LET pooled == POOL_NEW_Widget_throws(tracker, pool, size)
        IN  pooled.acquired # nullptr =>
                /\ getFreeCount(pooled.pool) = getFreeCount(pool)
                /\ getUsed(pooled.pool) = getUsed(pool)
                /\ allocate(pooled.pool).block = pooled.acquired

\* C25's case: a pool with blocks out (tracked) and blocks that came back, in
\* which a pooled construction gets a block and then fails.
C25_Witness ==
    /\ held \cap Tracked # {}
    /\ Len(freedOrder) >= 1
    /\ Len(pool.freeList_) >= 2
    /\ POOL_NEW_Widget_throws(tracker, pool, 1).acquired = Last(pool.freeList_)

\* C26: deallocate(addr) succeeds only for an address on loan from allocate();
\* in every reachable state freeBlockCount() <= floor(poolSize/blockSize) and
\* usedBytes() <= poolSize (it never wraps below zero).
C26_OnlyLoanedBlocksReturn ==
    /\ \A addr \in Addrs : deallocate(pool, addr).diag = "Recycled" => addr \in held
    /\ getFreeCount(pool) <= numBlocks(pool)
    /\ getUsed(pool) <= pool.poolSize_

\* C23: at teardown the leak report lists exactly the allocations acquired and
\* not released so far, one entry each and none for a released address, and it
\* says "no leaks" exactly when nothing is live.
C23_LeakReportExact ==
    tornDown =>
        LET report == printLeakReport(tracker)
            live == heap \cup held
        IN  /\ {e.ptr : e \in report.leaks} = live
            /\ Cardinality(report.leaks) = Cardinality(live)
            /\ report.noLeaks <=> (live = {})

\* C27 as stated: a thread that calls freeBlockCount() and then usedBytes()
\* while other threads allocate and deallocate obtains a pair with
\* freeBlockCount*blockSize + usedBytes = blockCount*blockSize.
C27_PairConsistent ==
    \A th \in Threads :
        (reg[th].count # NotRead /\ reg[th].used # NotRead) =>
            reg[th].count * getBlockSize(pool) + reg[th].used
                = numBlocks(pool) * getBlockSize(pool)

\* C27, amended: each of the two getters reads under the pool's mutex, at a
\* moment when the free list and used_ agree (size*blockSize + used_ is
\* blockCount*blockSize) and no other thread is inside allocate or deallocate.
C27_EachReadConsistent ==
    \A th \in Threads :
        (Busy(th) /\ Instr(th) \in {"freeList_.size()", "used_"}) =>
            /\ Len(pool.freeList_) * getBlockSize(pool) + getUsed(pool)
                  = numBlocks(pool) * getBlockSize(pool)
            /\ \A other \in Threads \ {th} :
                  Busy(other) =>
                      Instr(other) \notin {"back", "pop_back", "used_ += blockSize_",
                                           "check", "push_back", "used_ -= blockSize_"}

\* C27's case: a thread has read the free count and is about to read used_,
\* and another thread has taken or returned a block in between.
C27_Witness ==
    \E th \in Threads :
        /\ Busy(th) /\ Instr(th) = "used_"
        /\ reg[th].count # NotRead
        /\ reg[th].count # getFreeCount(pool)

\* thread th is in operator delete(void*), has found its address tracked and
\* has not called free yet
FreePending(th) ==
    /\ pc[th][1] = "delete"
    /\ pc[th][2] >= 4
    /\ reg[th].flag

\* C28: whatever the interleaving of plain releases of one tracked address by
\* several threads, the address is passed to free at most once: no two threads
\* are both on their way to free it.
C28_FreedAtMostOnce ==
    \A t1, t2 \in Threads :
        (t1 # t2 /\ FreePending(t1) /\ FreePending(t2)) => reg[t1].ptr # reg[t2].ptr

\* C29: when the exhaustion hook is invoked by several threads while the
\* reserve is held, the reserve's buffer is freed once and one invocation
\* signals that a retry is possible.
C29_ReserveFreedOnceByThreads ==
    /\ reserveFrees <= 1
    /\ Cardinality({th \in Threads : reg[th].flag}) <= 1
    /\ ~crashed

\* C30: for any interleaving of acquisitions and releases on the plain, tagged
\* and pooled paths by several threads, each releasing only what it holds
\* through the matching path, every address a thread holds is tracked, with
\* the size and the origin of an acquisition of its kind: no release removes
\* or overwrites the record of an acquisition that reuses the address.
C30_HeldIsTracked ==
    \A th \in Threads : \A ptr \in owns[th] :
        /\ isTracked(tracker, ptr)
        /\ tracker.allocations_[ptr].size = 1
        /\ IF ptr \in HeapAddrs
           THEN tracker.allocations_[ptr].file \in {Origin("new"), Origin("new tagged")}
           ELSE tracker.allocations_[ptr].file = Origin("new pool")

\* C30's case: a thread has removed the record of its address and is about to
\* give the memory back, while another thread that holds an address is inside
\* an acquisition.
C30_Witness ==
    \E t1, t2 \in Threads :
        /\ t1 # t2
        /\ Busy(t1) /\ Instr(t1) \in {"free", "free if tracked", "deallocate"}
        /\ ~isTracked(tracker, reg[t1].ptr)
        /\ Busy(t2) /\ pc[t2][1] \in {"new", "new tagged", "new pool"}
        /\ owns[t2] # {}

====
